---- MODULE Spec2Model ----
(***************************************************************************)
(* ProofListIndex (exonum merkledb): a Merkelized array list kept in a     *)
(* flat key-value sub-space.  The model keeps the key-value store of the   *)
(* index, the cached length of the handle and the outcome of the last      *)
(* call; hashes are symbolic terms, so the hash is collision free and      *)
(* domain separated by construction.                                       *)
(***************************************************************************)
EXTENDS Integers, Sequences, FiniteSets, TLC

VARIABLES store, length, L, result, frame

vars == <<store, length, L, result, frame>>

\* ------------------------------------------------------------------ bounds
\* Longest list the model builds.
MaxLen == 4
\* Longest iterator handed to extend.
MaxExtend == 2
\* Element values pushed and set.
Values == {1, 2, 3}
\* Positions and range bounds the read operations are asked about.
Positions == 0..(MaxLen + 1)

\* ------------------------------------------------------------ Option<T>
None == <<>>
Some(x) == <<x>>
unwrap_or(o, d) == IF o = None THEN d ELSE o[1]

\* Outcome of a panicking call / of an unwrap() on None.
Ok == <<"ok">>
Panic(kind) == <<"panic", kind>>

\* ------------------------------------------------------------- HashTag
Default == <<"default">>
hash_leaf(v) == <<"leaf", v>>
hash_single_node(h) == <<"single", h>>
hash_node(l, r) == <<"node", l, r>>
hash_list_node(n, root) == <<"list", n, root>>
empty_list_hash == hash_list_node(0, Default)

RECURSIVE Pow2(_)
Pow2(e) == IF e <= 0 THEN 1 ELSE 2 * Pow2(e - 1)

\* ------------------------------------------------------------ KeyCodec
\* The length key `()` and the node keys (height, index).
LenKey == <<>>
ProofListKey(h, i) == <<h, i>>
leaf(i) == ProofListKey(0, i)
key_height(k) == k[1]
key_index(k) == k[2]

\* The byte form of a key: the length key is the empty string, a node key is
\* one byte of height followed by the index as a big-endian u64.  Indices
\* below 2^24 suffice here, so the five high bytes are computed as 0.
be_byte(i, j) == IF j <= 5 THEN 0 ELSE (i \div Pow2(8 * (8 - j))) % 256
be_u64(i) == [j \in 1..8 |-> be_byte(i, j)]
key_bytes(k) == IF k = LenKey THEN <<>> ELSE <<key_height(k) % 256>> \o be_u64(key_index(k))

\* Byte-lexicographic order, the order of the storage engine.
RECURSIVE bytes_less(_, _)
bytes_less(a, b) ==
    IF b = <<>> THEN FALSE
    ELSE IF a = <<>> THEN TRUE
    ELSE IF a[1] # b[1] THEN a[1] < b[1]
    ELSE bytes_less(Tail(a), Tail(b))

starts_with(a, prefix) ==
    Len(a) >= Len(prefix) /\ SubSeq(a, 1, Len(prefix)) = prefix

\* --------------------------------------------------------- TreeGeometry
left(k) == ProofListKey(key_height(k) - 1, 2 * key_index(k))
right(k) == ProofListKey(key_height(k) - 1, 2 * key_index(k) + 1)
parent(k) == ProofListKey(key_height(k) + 1, key_index(k) \div 2)
is_left(k) == key_index(k) % 2 = 0
as_left(k) == ProofListKey(key_height(k), key_index(k) - (key_index(k) % 2))
as_right(k) == ProofListKey(key_height(k), key_index(k) - (key_index(k) % 2) + 1)
first_left_leaf_index(k) ==
    IF key_height(k) < 2 THEN key_index(k)
    ELSE key_index(k) * Pow2(key_height(k) - 1)
first_right_leaf_index(k) ==
    IF key_height(k) < 2 THEN key_index(k)
    ELSE (2 * key_index(k) + 1) * Pow2(key_height(k) - 2)

\* ------------------------------------------------------------ BaseIndex
EmptyStore == <<>>
base_get(st, k) == IF k \in DOMAIN st THEN Some(st[k]) ELSE None
base_put(st, k, v) == [x \in (DOMAIN st) \cup {k} |-> IF x = k THEN v ELSE st[x]]
base_clear(st) == EmptyStore

\* The entries <<key, value>> in ascending byte order of their keys.
RECURSIVE in_key_order(_, _)
in_key_order(st, keys) ==
    IF keys = {} THEN <<>>
    ELSE LET k == CHOOSE x \in keys :
                    \A y \in keys \ {x} : bytes_less(key_bytes(x), key_bytes(y))
         IN <<(<<k, st[k]>>)>> \o in_key_order(st, keys \ {k})

\* BaseIndex::iter(prefix): the entries whose key starts with the prefix.
base_iter(st, prefix) ==
    in_key_order(st, {k \in DOMAIN st : starts_with(key_bytes(k), prefix)})

\* BaseIndex::iter_from(prefix, from): those of them at or after the key from.
base_iter_from(st, prefix, from) ==
    in_key_order(st, {k \in DOMAIN st :
                        /\ starts_with(key_bytes(k), prefix)
                        /\ ~bytes_less(key_bytes(k), key_bytes(from))})

\* ---------------------------------------------------------- u64 helpers
RECURSIVE npot_from(_, _)
npot_from(p, n) == IF p >= n THEN p ELSE npot_from(2 * p, n)
next_power_of_two(n) == npot_from(1, n)

\* u64::trailing_zeros: 64 for 0.
RECURSIVE trailing_zeros(_)
trailing_zeros(x) ==
    IF x = 0 THEN 64
    ELSE IF x % 2 = 1 THEN 0 ELSE 1 + trailing_zeros(x \div 2)

\* ------------------------------------------------------- ProofListIndex
\* len(): the cached length, or the stored one (0 when the key is absent).
len(st, c) == IF c # None THEN c[1] ELSE unwrap_or(base_get(st, LenKey), 0)

\* height from the highest set bit of the length: floor(log2 n) + 1.
RECURSIVE bit_length(_)
bit_length(x) == IF x <= 1 THEN 1 ELSE 1 + bit_length(x \div 2)
height_of_bit_length(n) == bit_length(n)

height_of(n) == trailing_zeros(next_power_of_two(n)) + 1

height(st, c) == height_of(len(st, c))

has_branch(st, c, k) == first_left_leaf_index(k) < len(st, c)

get_branch(st, c, k) == IF has_branch(st, c, k) THEN base_get(st, k) ELSE None

\* A node get_branch_unchecked can give: debug_assert!(has_branch) passes
\* and base.get() is Some.
readable(st, c, k) == has_branch(st, c, k) /\ k \in DOMAIN st

\* The failed debug_assert and the unwrap() of a missing node are panics.
get_branch_unchecked(st, c, k) ==
    IF readable(st, c, k) THEN st[k] ELSE Panic("unwrap")

\* root_key one level above the tree.
root_key_above(st, c) == ProofListKey(height(st, c) + 1, 0)

root_key(st, c) == ProofListKey(height(st, c), 0)

merkle_root(st, c) == unwrap_or(get_branch(st, c, root_key(st, c)), Default)

get(st, i) == base_get(st, leaf(i))

last(st, c) == IF len(st, c) = 0 THEN None ELSE get(st, len(st, c) - 1)

is_empty(st, c) == len(st, c) = 0

list_hash(st, c) == hash_list_node(len(st, c), merkle_root(st, c))

\* ProofListIndexIter: next() drops the key of each entry; the iterator is
\* drained while the handle is borrowed.
ProofListIndexIter(base_iter_) == [j \in 1..Len(base_iter_) |-> base_iter_[j][2]]

iter(st) == ProofListIndexIter(base_iter(st, <<0>>))

\* iter_from starting one leaf late.
iter_from_next_leaf(st, from) ==
    ProofListIndexIter(base_iter_from(st, <<0>>, leaf(from + 1)))

iter_from(st, from) == ProofListIndexIter(base_iter_from(st, <<0>>, leaf(from)))

\* ListProof<V>
Leaf(v) == <<"Leaf", v>>
Left(sub, r) == <<"Left", sub, r>>
Right(l, sub) == <<"Right", l, sub>>
Full(l, r) == <<"Full", l, r>>
Absent(n, root) == <<"Absent", n, root>>

\* construct_proof attaching the hash of the wrong sibling to a Left node.
RECURSIVE construct_proof_wrong_sibling(_, _, _, _, _)
construct_proof_wrong_sibling(st, c, key, from, to) ==
    IF key_height(key) = 1
    THEN LET v == get(st, key_index(key))
         IN IF v = None THEN Panic("unwrap") ELSE Leaf(v[1])
    ELSE LET middle == first_right_leaf_index(key)
         IN IF to <= middle
            THEN Left(construct_proof_wrong_sibling(st, c, left(key), from, to),
                      get_branch(st, c, left(key)))
            ELSE IF middle <= from
            THEN Right(get_branch_unchecked(st, c, left(key)),
                       construct_proof_wrong_sibling(st, c, right(key), from, to))
            ELSE Full(construct_proof_wrong_sibling(st, c, left(key), from, middle),
                      construct_proof_wrong_sibling(st, c, right(key), middle, to))

\* construct_proof with the left-side test off by one (to < middle).
RECURSIVE construct_proof_strict_left(_, _, _, _, _)
construct_proof_strict_left(st, c, key, from, to) ==
    IF key_height(key) = 1
    THEN LET v == get(st, key_index(key))
         IN IF v = None THEN Panic("unwrap") ELSE Leaf(v[1])
    ELSE LET middle == first_right_leaf_index(key)
         IN IF to < middle
            THEN Left(construct_proof_strict_left(st, c, left(key), from, to),
                      get_branch(st, c, right(key)))
            ELSE IF middle <= from
            THEN Right(get_branch_unchecked(st, c, left(key)),
                       construct_proof_strict_left(st, c, right(key), from, to))
            ELSE Full(construct_proof_strict_left(st, c, left(key), from, middle),
                      construct_proof_strict_left(st, c, right(key), middle, to))

RECURSIVE construct_proof(_, _, _, _, _)
construct_proof(st, c, key, from, to) ==
    IF key_height(key) = 1
    THEN LET v == get(st, key_index(key))
         IN IF v = None THEN Panic("unwrap") ELSE Leaf(v[1])
    ELSE LET middle == first_right_leaf_index(key)
         IN IF to <= middle
            THEN Left(construct_proof(st, c, left(key), from, to),
                      get_branch(st, c, right(key)))
            ELSE IF middle <= from
            THEN Right(get_branch_unchecked(st, c, left(key)),
                       construct_proof(st, c, right(key), from, to))
            ELSE Full(construct_proof(st, c, left(key), from, middle),
                      construct_proof(st, c, right(key), middle, to))

\* get_proof with the bound test off by one (index > len).
get_proof_off_by_one(st, c, index) ==
    IF index > len(st, c)
    THEN Absent(len(st, c), merkle_root(st, c))
    ELSE construct_proof(st, c, root_key(st, c), index, index + 1)

get_proof(st, c, index) ==
    IF index >= len(st, c)
    THEN Absent(len(st, c), merkle_root(st, c))
    ELSE construct_proof(st, c, root_key(st, c), index, index + 1)

\* std::ops::Bound
Unbounded == <<"Unbounded">>
Included(x) == <<"Included", x>>
Excluded(x) == <<"Excluded", x>>

\* The end of the range with an inclusive bound taken as one past it.
range_to_inclusive(st, c, end) ==
    IF end = Unbounded THEN len(st, c)
    ELSE IF end[1] = "Included" THEN end[2] + 1
    ELSE end[2]

range_from(st, c, start) == IF start = Unbounded THEN 0 ELSE start[2]
range_to(st, c, end) == IF end = Unbounded THEN len(st, c) ELSE end[2]

\* get_range_proof letting the empty range through (to < from).
get_range_proof_empty_range(st, c, start, end) ==
    LET from == range_from(st, c, start)
        to == range_to(st, c, end)
    IN IF to < from
       THEN Panic("IllegalRange")
       ELSE IF to > len(st, c)
       THEN Absent(len(st, c), merkle_root(st, c))
       ELSE construct_proof(st, c, root_key(st, c), from, to)

\* get_range_proof testing the start of the range against the length.
get_range_proof_start_check(st, c, start, end) ==
    LET from == range_from(st, c, start)
        to == range_to(st, c, end)
    IN IF to <= from
       THEN Panic("IllegalRange")
       ELSE IF from >= len(st, c)
       THEN Absent(len(st, c), merkle_root(st, c))
       ELSE construct_proof(st, c, root_key(st, c), from, to)

get_range_proof(st, c, start, end) ==
    LET from == range_from(st, c, start)
        to == range_to(st, c, end)
    IN IF to <= from
       THEN Panic("IllegalRange")
       ELSE IF to > len(st, c)
       THEN Absent(len(st, c), merkle_root(st, c))
       ELSE construct_proof(st, c, root_key(st, c), from, to)

\* --------------------------------------------------------- mutations
\* A mutation gives the store and the cached length it leaves behind and
\* "ok", or the panic that ended it.
Outcome(st, c, ret) == [st |-> st, c |-> c, ret |-> ret]

set_len(st, n) == base_put(st, LenKey, n)

set_branch(st, key, hash) == base_put(st, key, hash)

\* The hash of push's walk with the left sibling wrapped as a single node.
push_hash_single_left(st, c, key) ==
    IF is_left(key)
    THEN hash_single_node(get_branch_unchecked(st, c, key))
    ELSE hash_node(hash_single_node(get_branch_unchecked(st, c, as_left(key))),
                   get_branch_unchecked(st, c, key))

push_hash(st, c, key) ==
    IF is_left(key)
    THEN hash_single_node(get_branch_unchecked(st, c, key))
    ELSE hash_node(get_branch_unchecked(st, c, as_left(key)),
                   get_branch_unchecked(st, c, key))

push_reads(key) == IF is_left(key) THEN {key} ELSE {as_left(key), key}

RECURSIVE push_loop(_, _, _)
push_loop(st, c, key) ==
    IF key_height(key) < height(st, c)
    THEN IF \A k \in push_reads(key) : readable(st, c, k)
         THEN push_loop(set_branch(st, parent(key), push_hash(st, c, key)), c, parent(key))
         ELSE Outcome(st, c, Panic("unwrap"))
    ELSE Outcome(st, c, Ok)

\* push storing the new length and leaving the cached length as it was.
push_stale_cache(st, c, value) ==
    LET n == len(st, c)
        s1 == set_len(st, n + 1)
        key == ProofListKey(1, n)
        s2 == base_put(s1, key, hash_leaf(value))
        s3 == base_put(s2, leaf(n), value)
    IN Outcome(push_loop(s3, Some(n + 1), key).st, Some(n), Ok)

\* push without the put of the leaf hash at (1, len).
push_no_leaf_hash(st, c, value) ==
    LET n == len(st, c)
        s1 == set_len(st, n + 1)
        key == ProofListKey(1, n)
        s3 == base_put(s1, leaf(n), value)
    IN push_loop(s3, Some(n + 1), key)

\* push walking up to the height of the list before the push.
push_old_height(st, c, value) ==
    LET n == len(st, c)
        s1 == set_len(st, n + 1)
        key == ProofListKey(1, n)
        s2 == base_put(s1, key, hash_leaf(value))
        s3 == base_put(s2, leaf(n), value)
        o == push_loop(s3, Some(n), key)
    IN Outcome(o.st, Some(n + 1), o.ret)

\* push writing the leaf under the length it has just stored (n + 1).
push_leaf_at_new_len(st, c, value) ==
    LET n == len(st, c)
        s1 == set_len(st, n + 1)
        key == ProofListKey(1, n)
        s2 == base_put(s1, key, hash_leaf(value))
        s3 == base_put(s2, leaf(n + 1), value)
    IN push_loop(s3, Some(n + 1), key)

push(st, c, value) ==
    LET n == len(st, c)
        s1 == set_len(st, n + 1)
        key == ProofListKey(1, n)
        s2 == base_put(s1, key, hash_leaf(value))
        s3 == base_put(s2, leaf(n), value)
    IN push_loop(s3, Some(n + 1), key)

RECURSIVE extend(_, _, _)
extend(st, c, values) ==
    IF values = <<>>
    THEN Outcome(st, c, Ok)
    ELSE LET o == push(st, c, Head(values))
         IN IF o.ret = Ok THEN extend(o.st, o.c, Tail(values)) ELSE o

\* The hash of set's walk computed by the rule of push's walk.
set_hash_as_push(st, c, key) ==
    IF is_left(key)
    THEN hash_single_node(get_branch_unchecked(st, c, as_left(key)))
    ELSE hash_node(get_branch_unchecked(st, c, as_left(key)),
                   get_branch_unchecked(st, c, as_right(key)))

\* The hash of set's walk with a missing right sibling read as the default.
set_hash_default_right(st, c, key) ==
    IF has_branch(st, c, as_right(key))
    THEN hash_node(get_branch_unchecked(st, c, as_left(key)),
                   get_branch_unchecked(st, c, as_right(key)))
    ELSE hash_node(get_branch_unchecked(st, c, as_left(key)), Default)

set_hash(st, c, key) ==
    IF has_branch(st, c, as_right(key))
    THEN hash_node(get_branch_unchecked(st, c, as_left(key)),
                   get_branch_unchecked(st, c, as_right(key)))
    ELSE hash_single_node(get_branch_unchecked(st, c, as_left(key)))

set_reads(st, c, key) ==
    IF has_branch(st, c, as_right(key))
    THEN {as_left(key), as_right(key)}
    ELSE {as_left(key)}

RECURSIVE set_loop(_, _, _)
set_loop(st, c, key) ==
    IF key_height(key) < height(st, c)
    THEN IF \A k \in set_reads(st, c, key) : readable(st, c, k)
         THEN set_loop(set_branch(st, parent(key), set_hash(st, c, key)), c, parent(key))
         ELSE Outcome(st, c, Panic("unwrap"))
    ELSE Outcome(st, c, Ok)

\* set storing a new length, as push does.
set_bumps_len(st, c, index, value) ==
    LET n == len(st, c)
    IN IF index >= n
       THEN Outcome(st, Some(n), Panic("OutOfBounds"))
       ELSE LET key == ProofListKey(1, index)
                s0 == set_len(st, n + 1)
                s1 == base_put(s0, key, hash_leaf(value))
                s2 == base_put(s1, leaf(index), value)
            IN set_loop(s2, Some(n + 1), key)

\* set storing the leaf hash one position to the right.
set_hash_at_next(st, c, index, value) ==
    LET n == len(st, c)
    IN IF index >= n
       THEN Outcome(st, Some(n), Panic("OutOfBounds"))
       ELSE LET key == ProofListKey(1, index)
                s1 == base_put(st, ProofListKey(1, index + 1), hash_leaf(value))
                s2 == base_put(s1, leaf(index), value)
            IN set_loop(s2, Some(n), key)

\* set with the bound test off by one (index > len).
set_off_by_one(st, c, index, value) ==
    LET n == len(st, c)
    IN IF index > n
       THEN Outcome(st, Some(n), Panic("OutOfBounds"))
       ELSE LET key == ProofListKey(1, index)
                s1 == base_put(st, key, hash_leaf(value))
                s2 == base_put(s1, leaf(index), value)
            IN set_loop(s2, Some(n), key)

set(st, c, index, value) ==
    LET n == len(st, c)
    IN IF index >= n
       THEN Outcome(st, Some(n), Panic("OutOfBounds"))
       ELSE LET key == ProofListKey(1, index)
                s1 == base_put(st, key, hash_leaf(value))
                s2 == base_put(s1, leaf(index), value)
            IN set_loop(s2, Some(n), key)

\* clear leaving the cached length as it was.
clear_keeps_cache(st, c) == Outcome(base_clear(st), c, Ok)

clear(st, c) == Outcome(base_clear(st), Some(0), Ok)

\* ------------------------------------------------------- ProofVerifier
\* collect gives <<"Ok", hash, entries>> or <<"Err", kind>>; entries are the
\* <<position, value>> pairs met, in the order of the descent.
VOk(hash, entries) == <<"Ok", hash, entries>>
VErr(kind) == <<"Err", kind>>

RECURSIVE collect(_, _, _)
collect(proof, key, n) ==
    IF key_height(key) = 0 THEN VErr("ProofStructural")
    ELSE IF proof[1] = "Leaf"
    THEN IF key_height(key) > 1 THEN VErr("ProofStructural")
         ELSE VOk(hash_leaf(proof[2]), << <<key_index(key), proof[2]>> >>)
    ELSE IF proof[1] = "Left"
    THEN LET l == collect(proof[2], left(key), n)
         IN IF l[1] = "Err" THEN l
            ELSE IF proof[3] = None
            THEN IF first_left_leaf_index(right(key)) < n
                 THEN VErr("ProofStructural")
                 ELSE VOk(hash_single_node(l[2]), l[3])
            ELSE VOk(hash_node(l[2], proof[3][1]), l[3])
    ELSE IF proof[1] = "Right"
    THEN LET r == collect(proof[3], right(key), n)
         IN IF r[1] = "Err" THEN r
            ELSE VOk(hash_node(proof[2], r[2]), r[3])
    ELSE IF proof[1] = "Full"
    THEN LET l == collect(proof[2], left(key), n)
             r == collect(proof[3], right(key), n)
         IN IF l[1] = "Err" THEN l
            ELSE IF r[1] = "Err" THEN r
            ELSE VOk(hash_node(l[2], r[2]), l[3] \o r[3])
    ELSE VErr("ProofStructural")

\* validate gives <<"Ok", entries>> or <<"Err", kind>>.
validate(proof, n, expected_list_hash) ==
    IF proof[1] = "Absent"
    THEN IF proof[2] # n THEN VErr("ProofLengthMismatch")
         ELSE IF hash_list_node(proof[2], proof[3]) # expected_list_hash
         THEN VErr("ProofHashMismatch")
         ELSE <<"Ok", <<>> >>
    ELSE LET r == collect(proof, ProofListKey(height_of(n), 0), n)
         IN IF r[1] = "Err" THEN r
            ELSE IF hash_list_node(n, r[2]) # expected_list_hash
            THEN VErr("ProofHashMismatch")
            ELSE <<"Ok", r[3]>>

\* ------------------------------------------------------------- actions
\* The handle is synchronous and single-threaded: a call runs to its end and
\* returns its outcome before the next call starts.  result holds the
\* outcome of the call that has just run, Idle once the caller has taken it.
Call(op, args, ret) == [op |-> op, args |-> args, ret |-> ret]
Idle == Call("idle", <<>>, Ok)

\* Sequences of values of length lo..hi.
RECURSIVE SeqsUpTo(_)
SeqsUpTo(k) ==
    IF k = 0 THEN {<<>>}
    ELSE LET shorter == SeqsUpTo(k - 1)
         IN shorter \cup {Append(s, v) : s \in {t \in shorter : Len(t) = k - 1}, v \in Values}

\* The bounds of the range forms a..b, a..=b, a.., ..b, ..=b and `..`.
StartBounds == {Unbounded} \cup {Included(x) : x \in Positions}
EndBounds == {Unbounded} \cup {Included(x) : x \in Positions} \cup {Excluded(x) : x \in Positions}

\* The locals of a push in progress and the line it has reached; NoFrame
\* when no push is in progress.
Frame(pc, n, key, value) == [pc |-> pc, len |-> n, key |-> key, value |-> value]
NoFrame == Frame("none", 0, ProofListKey(0, 0), 0)

Init ==
    /\ store = EmptyStore
    /\ length = None
    /\ L = <<>>
    /\ result = Idle
    /\ frame = NoFrame

\* ProofListIndex::new over the same view: a fresh handle, the cache empty.
New ==
    /\ result.op = "idle"
    /\ frame = NoFrame
    /\ UNCHANGED frame
    /\ length' = None
    /\ result' = Call("new", <<>>, Ok)
    /\ UNCHANGED <<store, L>>

Push ==
    /\ result.op = "idle"
    /\ frame = NoFrame
    /\ UNCHANGED frame
    /\ \E v \in Values :
        /\ Len(L) < MaxLen
        /\ LET o == push(store, length, v)
           IN /\ store' = o.st
              /\ length' = o.c
              /\ result' = Call("push", <<v>>, o.ret)
        /\ L' = Append(L, v)

Extend ==
    /\ result.op = "idle"
    /\ frame = NoFrame
    /\ UNCHANGED frame
    /\ \E vs \in SeqsUpTo(MaxExtend) :
        /\ Len(L) + Len(vs) <= MaxLen
        /\ LET o == extend(store, length, vs)
           IN /\ store' = o.st
              /\ length' = o.c
              /\ result' = Call("extend", vs, o.ret)
        /\ L' = L \o vs

Set ==
    /\ result.op = "idle"
    /\ frame = NoFrame
    /\ UNCHANGED frame
    /\ \E i \in Positions, v \in Values :
        /\ LET o == set(store, length, i, v)
           IN /\ store' = o.st
              /\ length' = o.c
              /\ result' = Call("set", <<i, v>>, o.ret)
        /\ L' = IF i < Len(L) THEN [L EXCEPT ![i + 1] = v] ELSE L

Clear ==
    /\ result.op = "idle"
    /\ frame = NoFrame
    /\ UNCHANGED frame
    /\ LET o == clear(store, length)
       IN /\ store' = o.st
          /\ length' = o.c
          /\ result' = Call("clear", <<>>, o.ret)
    /\ L' = <<>>

GetOp ==
    /\ result.op = "idle"
    /\ frame = NoFrame
    /\ UNCHANGED frame
    /\ \E i \in Positions :
        /\ result' = Call("get", <<i>>, get(store, i))
        /\ UNCHANGED <<store, length, L>>

LastOp ==
    /\ result.op = "idle"
    /\ frame = NoFrame
    /\ UNCHANGED frame
    /\ result' = Call("last", <<>>, last(store, length))
    /\ length' = Some(len(store, length))
    /\ UNCHANGED <<store, L>>

IsEmptyOp ==
    /\ result.op = "idle"
    /\ frame = NoFrame
    /\ UNCHANGED frame
    /\ result' = Call("is_empty", <<>>, is_empty(store, length))
    /\ length' = Some(len(store, length))
    /\ UNCHANGED <<store, L>>

\* len() taking the cached length out of the cell.
LenOp_take ==
    /\ result.op = "idle"
    /\ frame = NoFrame
    /\ UNCHANGED frame
    /\ result' = Call("len", <<>>, len(store, length))
    /\ length' = None
    /\ UNCHANGED <<store, L>>

LenOp ==
    /\ result.op = "idle"
    /\ frame = NoFrame
    /\ UNCHANGED frame
    /\ result' = Call("len", <<>>, len(store, length))
    /\ length' = Some(len(store, length))
    /\ UNCHANGED <<store, L>>

HeightOp ==
    /\ result.op = "idle"
    /\ frame = NoFrame
    /\ UNCHANGED frame
    /\ result' = Call("height", <<>>, height(store, length))
    /\ length' = Some(len(store, length))
    /\ UNCHANGED <<store, L>>

ListHashOp ==
    /\ result.op = "idle"
    /\ frame = NoFrame
    /\ UNCHANGED frame
    /\ result' = Call("list_hash", <<>>, list_hash(store, length))
    /\ length' = Some(len(store, length))
    /\ UNCHANGED <<store, L>>

GetProofOp ==
    /\ result.op = "idle"
    /\ frame = NoFrame
    /\ UNCHANGED frame
    /\ \E i \in Positions :
        /\ result' = Call("get_proof", <<i>>, get_proof(store, length, i))
        /\ length' = Some(len(store, length))
        /\ UNCHANGED <<store, L>>

\* The illegal-range panic comes before any len() unless the end is unbounded.
GetRangeProofOp ==
    /\ result.op = "idle"
    /\ frame = NoFrame
    /\ UNCHANGED frame
    /\ \E s \in StartBounds, e \in EndBounds :
        /\ result' = Call("get_range_proof", <<s, e>>, get_range_proof(store, length, s, e))
        /\ length' = IF e # Unbounded /\ e[2] <= range_from(store, length, s)
                     THEN length
                     ELSE Some(len(store, length))
        /\ UNCHANGED <<store, L>>

IterOp ==
    /\ result.op = "idle"
    /\ frame = NoFrame
    /\ UNCHANGED frame
    /\ result' = Call("iter", <<>>, iter(store))
    /\ UNCHANGED <<store, length, L>>

IterFromOp ==
    /\ result.op = "idle"
    /\ frame = NoFrame
    /\ UNCHANGED frame
    /\ \E from \in Positions :
        /\ result' = Call("iter_from", <<from>>, iter_from(store, from))
        /\ UNCHANGED <<store, length, L>>

Return ==
    /\ result.op # "idle"
    /\ frame = NoFrame
    /\ UNCHANGED frame
    /\ result' = Idle
    /\ UNCHANGED <<store, length, L>>

Next ==
    \/ New
    \/ Push
    \/ Extend
    \/ Set
    \/ Clear
    \/ GetOp
    \/ LastOp
    \/ IsEmptyOp
    \/ LenOp
    \/ HeightOp
    \/ ListHashOp
    \/ GetProofOp
    \/ GetRangeProofOp
    \/ IterOp
    \/ IterFromOp
    \/ Return

Spec == Init /\ [][Next]_vars

\* ------------------------------------------------- push, write by write
\* The leaf written where the leaf hash belongs in the order of writes.
push_put_leaf_first(st, fr) == base_put(st, leaf(fr.len), fr.value)

push_put_hash(st, fr) == base_put(st, fr.key, hash_leaf(fr.value))

push_put_leaf(st, fr) == base_put(st, leaf(fr.len), fr.value)

\* let len = self.len();
PushLen ==
    /\ result.op = "idle"
    /\ frame = NoFrame
    /\ Len(L) < MaxLen
    /\ \E value \in Values :
          frame' = Frame("set_len", len(store, length),
                         ProofListKey(1, len(store, length)), value)
    /\ length' = Some(len(store, length))
    /\ UNCHANGED <<store, L, result>>

\* self.set_len(len + 1);
PushSetLen ==
    /\ frame.pc = "set_len"
    /\ store' = set_len(store, frame.len + 1)
    /\ length' = Some(frame.len + 1)
    /\ frame' = [frame EXCEPT !.pc = "put_hash"]
    /\ UNCHANGED <<L, result>>

\* self.base.put(&key, HashTag::hash_leaf(value.clone()));
PushPutHash ==
    /\ frame.pc = "put_hash"
    /\ store' = push_put_hash(store, frame)
    /\ frame' = [frame EXCEPT !.pc = "put_leaf"]
    /\ UNCHANGED <<length, L, result>>

\* self.base.put(&ProofListKey::leaf(len), value);
PushPutLeaf ==
    /\ frame.pc = "put_leaf"
    /\ store' = push_put_leaf(store, frame)
    /\ frame' = [frame EXCEPT !.pc = "loop"]
    /\ UNCHANGED <<length, L, result>>

\* One turn of the while loop: the hash of the pair, then the parent written.
PushLoop ==
    /\ frame.pc = "loop"
    /\ key_height(frame.key) < height(store, length)
    /\ IF \A k \in push_reads(frame.key) : readable(store, length, k)
       THEN /\ store' = set_branch(store, parent(frame.key),
                                   push_hash(store, length, frame.key))
            /\ frame' = [frame EXCEPT !.key = parent(frame.key)]
            /\ UNCHANGED <<L, result>>
       ELSE /\ frame' = NoFrame
            /\ result' = Call("push", <<frame.value>>, Panic("unwrap"))
            /\ UNCHANGED <<store, L>>
    /\ UNCHANGED length

\* The loop condition fails and push returns.
PushReturn ==
    /\ frame.pc = "loop"
    /\ ~(key_height(frame.key) < height(store, length))
    /\ frame' = NoFrame
    /\ result' = Call("push", <<frame.value>>, Ok)
    /\ L' = Append(L, frame.value)
    /\ UNCHANGED <<store, length>>

NextPush ==
    \/ New
    \/ Clear
    \/ PushLen
    \/ PushSetLen
    \/ PushPutHash
    \/ PushPutLeaf
    \/ PushLoop
    \/ PushReturn
    \/ Return

SpecPush == Init /\ [][NextPush]_vars

\* ---------------------------------------------------------- properties
\* The Merkle tree of a list l taken by itself: the hash of the subtree at
\* (h, i), the root and the list hash, from the leaves up.
RECURSIVE RefNode(_, _, _)
RefNode(l, h, i) ==
    IF h = 1 THEN hash_leaf(l[i + 1])
    ELSE IF (2 * i + 1) * Pow2(h - 2) < Len(l)
         THEN hash_node(RefNode(l, h - 1, 2 * i), RefNode(l, h - 1, 2 * i + 1))
         ELSE hash_single_node(RefNode(l, h - 1, 2 * i))

Max(a, b) == IF a >= b THEN a ELSE b
CeilLog2(n) == CHOOSE e \in 0..n : Pow2(e) >= n /\ (e = 0 \/ Pow2(e - 1) < n)
FloorLog2(n) == CHOOSE e \in 0..n : Pow2(e) <= n /\ Pow2(e + 1) > n

RefHeight(n) == CeilLog2(Max(n, 1)) + 1
RefRoot(l) == IF l = <<>> THEN Default ELSE RefNode(l, RefHeight(Len(l)), 0)
RefListHash(l) == hash_list_node(Len(l), RefRoot(l))

\* The value the list holds at position i, as an Option.
At(l, i) == IF i < Len(l) THEN Some(l[i + 1]) ELSE None

\* The pairs (a, l[a]), ..., (b - 1, l[b - 1]) in ascending position order.
Covered(l, a, b) == [k \in 1..(b - a) |-> <<a + k - 1, l[a + k]>>]

Accepts(proof, l, h, entries) ==
    LET r == validate(proof, Len(l), h)
    IN r[1] = "Ok" /\ r[2] = entries

\* C1: after any sequence of push, extend, set and clear the index agrees
\* with the list L those calls describe: len() = |L|, get(i) = L[i] for
\* i < |L|, get(i) is None for i >= |L|, last() is the last element of L
\* (None when L is empty); the calls get, len and last return just that.
InvC1 ==
    /\ len(store, length) = Len(L)
    /\ \A i \in Positions : get(store, i) = At(L, i)
    /\ last(store, length) = (IF L = <<>> THEN None ELSE Some(L[Len(L)]))
    /\ result.op = "get" => result.ret = At(L, result.args[1])
    /\ result.op = "len" => result.ret = Len(L)
    /\ result.op = "last" => result.ret = (IF L = <<>> THEN None ELSE Some(L[Len(L)]))

\* get(2) on a list of at least 3 elements, one of them rewritten by set.
WitC1 ==
    /\ result.op = "get"
    /\ result.args[1] = 2
    /\ Len(L) >= 3
    /\ result.ret = Some(L[3])
    /\ L[3] # L[1]

\* C2: the proof get_proof(i) returns for i < |L| is accepted by the
\* verifier against |L| and list_hash(L) and yields exactly (i, L[i]).
InvC2 ==
    (result.op = "get_proof" /\ result.args[1] < Len(L)) =>
        Accepts(result.ret, L, list_hash(store, length),
                << <<result.args[1], L[result.args[1] + 1]>> >>)

\* get_proof of the last element of a 3-element list: the proof runs down
\* the right spine and ends in a Left node that carries no right hash.
WitC2 ==
    /\ result.op = "get_proof"
    /\ Len(L) = 3
    /\ result.args[1] = 2
    /\ result.ret[1] = "Right"
    /\ result.ret[3][1] = "Left"
    /\ result.ret[3][3] = None

\* The call get_range_proof(a..b) with explicit bounds a (included) and
\* b (excluded).
IsRangeCall(r) ==
    /\ r.op = "get_range_proof"
    /\ r.args[1][1] = "Included"
    /\ r.args[2][1] = "Excluded"

\* C3: for a < b <= |L| the proof get_range_proof(a..b) returns is accepted
\* against |L| and list_hash(L) and yields exactly (a, L[a]), ...,
\* (b-1, L[b-1]) in ascending position order.
InvC3 ==
    (/\ IsRangeCall(result)
     /\ result.args[1][2] < result.args[2][2]
     /\ result.args[2][2] <= Len(L)) =>
        Accepts(result.ret, L, list_hash(store, length),
                Covered(L, result.args[1][2], result.args[2][2]))

\* get_range_proof(1..3) on a 4-element list: a range across both halves
\* of the tree.
WitC3 ==
    /\ IsRangeCall(result)
    /\ Len(L) = 4
    /\ result.args[1][2] = 1
    /\ result.args[2][2] = 3
    /\ result.ret[1] = "Full"
    /\ result.ret[2][1] = "Right"
    /\ result.ret[3][1] = "Left"

\* C4: get_proof(i) with i >= len is Absent with the current length and the
\* current Merkle root (the default hash when the list is empty); it is not
\* Absent when i < len.
InvC4 ==
    result.op = "get_proof" =>
        IF result.args[1] >= Len(L)
        THEN /\ result.ret = Absent(Len(L), merkle_root(store, length))
             /\ result.ret[3] = RefRoot(L)
             /\ L = <<>> => result.ret[3] = Default
        ELSE result.ret[1] # "Absent"

\* get_proof(len) on a list of 3 elements.
WitC4 ==
    /\ result.op = "get_proof"
    /\ Len(L) = 3
    /\ result.args[1] = 3
    /\ result.ret[1] = "Absent"

\* The range [from, to) a get_range_proof call was resolved to.
FromOf(r) == IF r.args[1] = Unbounded THEN 0 ELSE r.args[1][2]
ToOf(r) == IF r.args[2] = Unbounded THEN Len(L) ELSE r.args[2][2]

\* C5: get_range_proof with from < to is Absent{len, merkle_root} whenever
\* to > len, and a proof of existence whenever to <= len.
InvC5 ==
    (result.op = "get_range_proof" /\ FromOf(result) < ToOf(result)) =>
        IF ToOf(result) > Len(L)
        THEN /\ result.ret = Absent(Len(L), merkle_root(store, length))
             /\ result.ret[3] = RefRoot(L)
        ELSE result.ret[1] \in {"Leaf", "Left", "Right", "Full"}

\* get_range_proof(1..5) on a 4-element list: the start is inside the
\* list, the end beyond it.
WitC5 ==
    /\ result.op = "get_range_proof"
    /\ Len(L) = 4
    /\ FromOf(result) = 1
    /\ ToOf(result) = 5
    /\ result.ret[1] = "Absent"

IsPanicOf(r, kind) == r[1] = "panic" /\ r[2] = kind

\* C6: set(i, v) with i >= len panics with an out-of-bounds error before it
\* writes anything: the stored leaves, branches and length and the list
\* hash are the same after the failed call as before it.
ActC6 ==
    [][(/\ result.op = "idle"
        /\ result'.op = "set"
        /\ result'.args[1] >= len(store, length)) =>
            /\ IsPanicOf(result'.ret, "OutOfBounds")
            /\ store' = store
            /\ list_hash(store', length') = list_hash(store, length)]_vars

\* set(3, v) has failed on a list of 3 elements.
WitC6 ==
    /\ result.op = "set"
    /\ Len(L) = 3
    /\ result.args[1] = 3
    /\ IsPanicOf(result.ret, "OutOfBounds")

\* C7: get_range_proof with to <= from panics with an illegal-range error
\* whatever the length of the list, and leaves the stored state unchanged.
ActC7 ==
    [][(/\ result.op = "idle"
        /\ result'.op = "get_range_proof"
        /\ ToOf(result') <= FromOf(result')) =>
            /\ IsPanicOf(result'.ret, "IllegalRange")
            /\ store' = store]_vars

\* get_range_proof(3..3) has failed on a list of 4 elements, where 3 is a
\* position of the list.
WitC7 ==
    /\ IsRangeCall(result)
    /\ Len(L) = 4
    /\ result.args[1][2] = 3
    /\ result.args[2][2] = 3
    /\ IsPanicOf(result.ret, "IllegalRange")

\* C8: whenever len = 0, height() = 1, the Merkle root is the default hash
\* and list_hash() is the fixed empty_list_hash = hash_list_node(0, default);
\* whenever len >= 1, list_hash() = hash_list_node(len, the branch stored at
\* (height, 0)).
InvC8 ==
    LET n == len(store, length)
        h == height(store, length)
    IN IF n = 0
       THEN /\ h = 1
            /\ merkle_root(store, length) = Default
            /\ list_hash(store, length) = empty_list_hash
            /\ list_hash(store, length) = hash_list_node(0, Default)
       ELSE /\ ProofListKey(h, 0) \in DOMAIN store
            /\ list_hash(store, length) = hash_list_node(n, store[ProofListKey(h, 0)])

\* list_hash() called right after clear() emptied the index.
WitC8 ==
    /\ result.op = "list_hash"
    /\ length = Some(0)
    /\ store = EmptyStore
    /\ result.ret = empty_list_hash

\* C9 as stated: height() of a list of length n is floor(log2(max(n, 1))) + 1.
CexC9 ==
    result.op = "height" => result.ret = FloorLog2(Max(Len(L), 1)) + 1

\* C9 as amended: height() of a list of length n is
\* ceil(log2(max(n, 1))) + 1.
ThmC9 ==
    result.op = "height" => result.ret = CeilLog2(Max(Len(L), 1)) + 1

\* height() = 3 on a list of 3 elements, where the floor formula gives 2.
WitC9 ==
    /\ result.op = "height"
    /\ Len(L) = 3
    /\ result.ret = 3
    /\ FloorLog2(3) + 1 = 2

\* C10: height() = trailing_zeros(next_power_of_two(len)) + 1
\* = ceil(log2(max(len, 1))) + 1, which is 1 for len 0 and 1; for len >= 1
\* the Merkle root is the branch stored at (height(), 0), which is in the
\* store after every push and set.
InvC10 ==
    LET n == len(store, length)
        h == height(store, length)
    IN /\ h = trailing_zeros(next_power_of_two(n)) + 1
       /\ h = CeilLog2(Max(n, 1)) + 1
       /\ n \in {0, 1} => h = 1
       /\ n >= 1 =>
            /\ root_key(store, length) = ProofListKey(h, 0)
            /\ ProofListKey(h, 0) \in DOMAIN store
            /\ merkle_root(store, length) = store[ProofListKey(h, 0)]
       /\ (result.op \in {"push", "set"} /\ n >= 1) =>
            base_get(store, ProofListKey(h, 0)) # None

\* The push that takes the list from 2 to 3 elements and the height from 2
\* to 3 has stored the new root.
WitC10 ==
    /\ result.op = "push"
    /\ Len(L) = 3
    /\ height(store, length) = 3
    /\ ProofListKey(3, 0) \in DOMAIN store

\* C11: set is idempotent: set(i, v) called again right after set(i, v)
\* (i < len) leaves list_hash, every stored leaf and branch and the length
\* exactly as the first call left them.
InvC11 ==
    (result.op = "set" /\ result.ret = Ok) =>
        LET again == set(store, length, result.args[1], result.args[2])
        IN /\ again.ret = Ok
           /\ again.st = store
           /\ again.c = length
           /\ list_hash(again.st, again.c) = list_hash(store, length)

\* set(2, v) has rewritten the last element of a 3-element list with a new
\* value: its path runs up the right spine.
WitC11 ==
    /\ result.op = "set"
    /\ result.ret = Ok
    /\ Len(L) = 3
    /\ result.args[1] = 2
    /\ L[3] # L[1]

\* C12: list_hash is sensitive to the order of the elements: for a # b the
\* list [a, b] and the list built by push(b); push(a) have different
\* list hashes.
InvC12 ==
    (Len(L) = 2 /\ L[1] # L[2]) =>
        LET swapped == extend(EmptyStore, None, <<L[2], L[1]>>)
        IN /\ swapped.ret = Ok
           /\ get(swapped.st, 0) = Some(L[2])
           /\ get(swapped.st, 1) = Some(L[1])
           /\ list_hash(swapped.st, swapped.c) # list_hash(store, length)

\* push(a); push(b) with a # b has just built the list [a, b].
WitC12 ==
    /\ result.op = "push"
    /\ Len(L) = 2
    /\ L[1] # L[2]
    /\ store = extend(EmptyStore, None, L).st

\* What a handle shows of its list: length, height, elements, list hash.
View(st, c) ==
    <<len(st, c), height(st, c), [i \in Positions |-> get(st, i)], list_hash(st, c)>>

\* C13: after clear() len() = 0, is_empty() is true, no leaf, branch or
\* length key remains, and any pushes that follow behave as on a freshly
\* created index: same get results, same height, same list_hash.
InvC13 ==
    result.op = "clear" =>
        /\ len(store, length) = 0
        /\ is_empty(store, length)
        /\ DOMAIN store = {}
        /\ \A vs \in SeqsUpTo(MaxLen) :
              LET here == extend(store, length, vs)
                  fresh == extend(EmptyStore, None, vs)
              IN /\ here.ret = Ok
                 /\ here.st = fresh.st
                 /\ View(here.st, here.c) = View(fresh.st, fresh.c)

\* clear() has returned: the cache holds Some(0) and the list is empty.
WitC13 ==
    /\ result.op = "clear"
    /\ length = Some(0)
    /\ L = <<>>

\* The elements of l from position from on (none when from >= Len(l)).
Suffix(l, from) == SubSeq(l, from + 1, Len(l))

\* C14: iter() yields exactly the elements of L at positions 0..len-1 in
\* ascending position order, never a branch hash and never the length
\* entry; iter_from(from) yields exactly the elements at positions
\* from..len-1, and nothing when from >= len.
InvC14 ==
    /\ result.op = "iter" => result.ret = L
    /\ result.op = "iter_from" =>
          /\ result.ret = Suffix(L, result.args[1])
          /\ result.args[1] >= Len(L) => result.ret = <<>>

\* iter_from(1) has run over a 4-element list whose store also holds the
\* length entry and branch hashes up to height 3.
WitC14 ==
    /\ result.op = "iter_from"
    /\ result.args[1] = 1
    /\ Len(L) = 4
    /\ Len(result.ret) = 3
    /\ LenKey \in DOMAIN store
    /\ ProofListKey(3, 0) \in DOMAIN store

\* The bound of the other kind at the same position.
Flip(bound) ==
    IF bound = Unbounded THEN bound
    ELSE IF bound[1] = "Included" THEN Excluded(bound[2])
    ELSE Included(bound[2])

\* C15: get_range_proof reads Included(x) and Excluded(x) alike, as x: the
\* range a..=b gives the outcome of a..b (the element at b is not covered,
\* a..=a panics as an illegal range), an unbounded start is 0 and an
\* unbounded end is len.
InvC15 ==
    result.op = "get_range_proof" =>
        LET s == result.args[1]
            e == result.args[2]
        IN /\ \A s2 \in {s, Flip(s)}, e2 \in {e, Flip(e)} :
                 get_range_proof(store, length, s2, e2) = result.ret
           /\ s = Unbounded =>
                 get_range_proof(store, length, Included(0), e) = result.ret
           /\ e = Unbounded =>
                 get_range_proof(store, length, s, Excluded(Len(L))) = result.ret
           /\ (e # Unbounded /\ e[1] = "Included") =>
                 /\ FromOf(result) = e[2] => result.ret = Panic("IllegalRange")
                 /\ (FromOf(result) < e[2] /\ e[2] <= Len(L)) =>
                       Accepts(result.ret, L, list_hash(store, length),
                               Covered(L, FromOf(result), e[2]))

\* get_range_proof(1..=3) on a 4-element list: the proof covers positions
\* 1 and 2 and leaves the element at 3 out.
WitC15 ==
    /\ result.op = "get_range_proof"
    /\ Len(L) = 4
    /\ result.args[1] = Included(1)
    /\ result.args[2] = Included(3)
    /\ Accepts(result.ret, L, list_hash(store, length), Covered(L, 1, 3))

\* The node keys of a store: every key but the length key.
NodeKeys(st) == {k \in DOMAIN st : k # LenKey}

\* The length entry of a store, 0 when the key is absent.
Persisted(st) == unwrap_or(base_get(st, LenKey), 0)

\* C16: the authentication path is sound: for every 1 <= h <= height() and
\* every i whose first covered leaf is below len, the stored branch (h, i)
\* is hash_leaf(leaf i) when h = 1, hash_node(left, right) of the stored
\* children when the right child covers a leaf below len, and
\* hash_single_node(left) when the right child lies wholly beyond len; no
\* branch whose covered leaves all lie beyond len is stored.
InvC16 ==
    LET n == len(store, length)
    IN /\ \A h \in 1..height(store, length), i \in 0..n :
             LET k == ProofListKey(h, i)
             IN first_left_leaf_index(k) < n =>
                   /\ k \in DOMAIN store
                   /\ store[k] =
                         IF h = 1 THEN hash_leaf(store[leaf(i)])
                         ELSE IF first_left_leaf_index(right(k)) < n
                         THEN hash_node(store[left(k)], store[right(k)])
                         ELSE hash_single_node(store[left(k)])
       /\ \A k \in NodeKeys(store) :
             key_height(k) >= 1 => first_left_leaf_index(k) < n

\* set(2, v) on a 3-element list has rewritten the right spine: (2, 1) is a
\* single-node hash, the root at (3, 0) a node hash.
WitC16 ==
    /\ result.op = "set"
    /\ result.args[1] = 2
    /\ len(store, length) = 3
    /\ store[ProofListKey(2, 1)] = hash_single_node(store[ProofListKey(1, 2)])
    /\ store[ProofListKey(3, 0)] =
          hash_node(store[ProofListKey(2, 0)], store[ProofListKey(2, 1)])

\* C17: the leaves are dense: the indices of the height-0 keys in storage
\* are exactly 0..len-1, len being the persisted length (0 when the length
\* key is absent).
InvC17 ==
    {key_index(k) : k \in {x \in NodeKeys(store) : key_height(x) = 0}}
        = 0..(Persisted(store) - 1)

\* Four leaves stored under a persisted length of 4, the last one rewritten.
WitC17 ==
    /\ result.op = "set"
    /\ result.args[1] = 3
    /\ result.ret = Ok
    /\ Persisted(store) = 4
    /\ leaf(3) \in DOMAIN store
    /\ leaf(4) \notin DOMAIN store

\* The keys set(index, _) may write: the leaf and its ancestors (h, index >> (h-1)).
SetPath(index, ht) ==
    {leaf(index)} \cup {ProofListKey(h, index \div Pow2(h - 1)) : h \in 1..ht}

\* C19: set(i, v) with i < len leaves len and height unchanged, leaves every
\* leaf other than i unchanged, and leaves every stored branch unchanged
\* that is not an ancestor (h, i >> (h-1)), 1 <= h <= height, of leaf i.
ActC19 ==
    [][(result'.op = "set" /\ result'.ret = Ok) =>
          /\ len(store', length') = len(store, length)
          /\ height(store', length') = height(store, length)
          /\ DOMAIN store' = DOMAIN store
          /\ \A k \in DOMAIN store :
                k \notin SetPath(result'.args[1], height(store, length)) =>
                    store'[k] = store[k]]_vars

\* set(1, v) has returned on a 4-element list: the leaves 0, 2, 3 and the
\* branches (1, 0), (1, 2), (1, 3), (2, 1) are off its path.
WitC19 ==
    /\ result.op = "set"
    /\ result.ret = Ok
    /\ result.args[1] = 1
    /\ Len(L) = 4
    /\ L[2] = result.args[2]
    /\ L[1] # L[2]

\* The read operations.
ReadOps ==
    {"get", "last", "is_empty", "len", "height", "list_hash",
     "get_proof", "get_range_proof", "iter", "iter_from"}

\* C20: no read operation changes a key of the store; the cached length may
\* go from empty to populated, with the stored length, but a read never
\* empties it or changes it to another value.
ActC20 ==
    [][result'.op \in ReadOps =>
          /\ store' = store
          /\ length # None => length' = length
          /\ length = None => length' \in {None, Some(Persisted(store))}]_vars

\* list_hash() has returned on a 3-element list and the cache holds the
\* stored length.
WitC20 ==
    /\ result.op = "list_hash"
    /\ Persisted(store) = 3
    /\ length = Some(3)

\* The ancestor at height h of the leaf at position n.
Ancestor(h, n) == ProofListKey(h, n \div Pow2(h - 1))

\* The branches on the path of leaf n up to height h hold the hashes of the
\* tree of the list l.
PathWritten(st, l, n, h) ==
    \A j \in 1..h : base_get(st, Ancestor(j, n)) = Some(RefNode(l, j, key_index(Ancestor(j, n))))

\* C18 as stated: within one push(v) on a list of length n the leaf (0, n)
\* and its hash (1, n) are written first, then the ancestors bottom-up, and
\* only finally the persisted length n + 1: while push runs, the persisted
\* length is n + 1 only when the leaf at position n, its hash and its whole
\* path are already in the store.
CexC18 ==
    (frame.pc # "none" /\ Persisted(store) = frame.len + 1) =>
        /\ leaf(frame.len) \in DOMAIN store
        /\ PathWritten(store, Append(L, frame.value), frame.len,
                       height_of(frame.len + 1))

\* C18, amended: within one push(v) on a list of length n the writes come
\* in this order: first the persisted length n + 1 with the cached length,
\* then the hash (1, n), then the leaf (0, n), then the ancestors (h, n >>
\* (h-1)) bottom-up up to the new height; from the first write until the
\* leaf write the persisted length is already n + 1 while the leaf at
\* position n is missing, and when push returns the store is that of the
\* list with v appended.
InvC18 ==
    LET n == frame.len
        after == Append(L, frame.value)
    IN /\ frame.pc = "set_len" =>
             /\ Persisted(store) = n
             /\ length = Some(n)
             /\ base_get(store, ProofListKey(1, n)) = None
             /\ get(store, n) = None
       /\ frame.pc = "put_hash" =>
             /\ Persisted(store) = n + 1
             /\ length = Some(n + 1)
             /\ base_get(store, ProofListKey(1, n)) = None
             /\ get(store, n) = None
       /\ frame.pc = "put_leaf" =>
             /\ Persisted(store) = n + 1
             /\ base_get(store, ProofListKey(1, n)) = Some(hash_leaf(frame.value))
             /\ get(store, n) = None
       /\ frame.pc = "loop" =>
             /\ Persisted(store) = n + 1
             /\ get(store, n) = Some(frame.value)
             /\ frame.key = Ancestor(key_height(frame.key), n)
             /\ PathWritten(store, after, n, key_height(frame.key))
             /\ \A h \in (key_height(frame.key) + 1)..height_of(n + 1) :
                   base_get(store, Ancestor(h, n)) =
                       IF first_left_leaf_index(Ancestor(h, n)) < n
                          /\ h <= height_of(n)
                       THEN Some(RefNode(L, h, key_index(Ancestor(h, n))))
                       ELSE None
       /\ (result.op = "push" /\ result.ret = Ok) =>
             /\ store = extend(EmptyStore, None, L).st
             /\ length = Some(Len(L))
             /\ PathWritten(store, L, Len(L) - 1, height_of(Len(L)))

\* push on a 2-element list has stored the length 3 and the hash (1, 2),
\* and the leaf at position 2 is not yet written.
WitC18 ==
    /\ frame.pc = "put_leaf"
    /\ frame.len = 2
    /\ Persisted(store) = 3
    /\ ProofListKey(1, 2) \in DOMAIN store
    /\ leaf(2) \notin DOMAIN store

\* C21: the cache is coherent on one handle: in every state reached by
\* reads and completed push, set, extend and clear calls, a populated cached
\* length equals the persisted length (0 when the length key is absent), so
\* len() is the true length right after each mutation, also after clear has
\* removed the length key.
InvC21 ==
    /\ length # None => length[1] = Persisted(store)
    /\ len(store, length) = Len(L)
    /\ (result.op \in {"push", "clear"}
          \/ (result.op = "extend" /\ result.args # <<>>)) => length = Some(Len(L))
    /\ result.op = "clear" => (LenKey \notin DOMAIN store /\ length = Some(0))

\* extend has just taken the list to 4 elements: the cache and the length
\* entry both hold 4.
WitC21 ==
    /\ result.op = "extend"
    /\ Len(result.args) = 2
    /\ length = Some(4)
    /\ base_get(store, LenKey) = Some(4)

\* The state after push(1), push(2), push(3) on an empty list.
Pushed123 ==
    /\ result.op = "push"
    /\ L = <<1, 2, 3>>
    /\ store = push(push(push(EmptyStore, None, 1).st, Some(1), 2).st, Some(2), 3).st

\* C22 as stated: after pushing 1, 2, 3 onto an empty list height() = 3 and
\* the Merkle root is hash_node(hash_single_node(hash_node(hash_leaf(1),
\* hash_leaf(2))), hash_single_node(hash_leaf(3))).
CexC22 ==
    Pushed123 =>
        /\ height(store, length) = 3
        /\ merkle_root(store, length) =
              hash_node(hash_single_node(hash_node(hash_leaf(1), hash_leaf(2))),
                        hash_single_node(hash_leaf(3)))

\* C22, amended: after pushing 1, 2, 3 onto an empty list height() = 3 and
\* the Merkle root is hash_node(hash_node(hash_leaf(1), hash_leaf(2)),
\* hash_single_node(hash_leaf(3))): the full left subtree enters the root
\* as it is, only the right spine is wrapped by hash_single_node.
ThmC22 ==
    Pushed123 =>
        /\ height(store, length) = 3
        /\ merkle_root(store, length) =
              hash_node(hash_node(hash_leaf(1), hash_leaf(2)),
                        hash_single_node(hash_leaf(3)))
        /\ merkle_root(store, length) = RefRoot(L)

\* push(3) has returned on the list [1, 2] and the root is at (3, 0).
WitC22 ==
    /\ Pushed123
    /\ result.args = <<3>>
    /\ root_key(store, length) = ProofListKey(3, 0)

\* The values of l pushed one by one onto the index (st, c).
RECURSIVE PushAll(_, _, _)
PushAll(st, c, l) ==
    IF l = <<>> THEN Outcome(st, c, Ok)
    ELSE LET o == push(st, c, Head(l))
         IN PushAll(o.st, o.c, Tail(l))

\* C23: history independence: list_hash and the whole stored tree (leaves,
\* branches, length) depend only on the current list: however push, extend,
\* set and clear produced the list L, the store and list_hash are those of
\* pushing L one by one into a fresh index and those of extending a fresh
\* index with L in bulk.  Stated of the states a mutation, a re-opened handle
\* or a return leaves; a read in between changes no key.
InvC23 ==
    result.op \notin ReadOps =>
        LET one_by_one == PushAll(EmptyStore, None, L)
            bulk == extend(EmptyStore, None, L)
        IN /\ store = one_by_one.st
           /\ store = bulk.st
           /\ list_hash(store, length) = list_hash(one_by_one.st, one_by_one.c)
           /\ list_hash(store, length) = list_hash(bulk.st, bulk.c)
           /\ list_hash(store, length) = RefListHash(L)

\* set(0, v) has changed the first element of a 3-element list: the list
\* was not produced by pushes alone.
WitC23 ==
    /\ result.op = "set"
    /\ result.ret = Ok
    /\ result.args[1] = 0
    /\ Len(L) = 3
    /\ L[1] # L[2]
    /\ L[2] # L[3]

\* No node of a proof is a failed lookup.
RECURSIVE PanicFree(_)
PanicFree(proof) ==
    IF proof[1] = "panic" THEN FALSE
    ELSE IF proof[1] = "Left" THEN PanicFree(proof[2])
    ELSE IF proof[1] = "Right" THEN proof[2][1] # "panic" /\ PanicFree(proof[3])
    ELSE IF proof[1] = "Full" THEN PanicFree(proof[2]) /\ PanicFree(proof[3])
    ELSE TRUE

\* C24: no unchecked lookup fails: in every state reachable by push, set,
\* extend and clear, the get_branch_unchecked calls of push, of set (i < len)
\* and of construct_proof and the leaf unwrap of construct_proof find their
\* keys, so push, extend, set with a valid index, get_proof and
\* get_range_proof with from < to <= len never panic on a missing node.
InvC24 ==
    /\ result.op \in {"push", "extend"} => result.ret = Ok
    /\ (result.op = "set" /\ result.args[1] < Len(L)) => result.ret = Ok
    /\ result.op = "get_proof" => PanicFree(result.ret)
    /\ (/\ result.op = "get_range_proof"
        /\ FromOf(result) < ToOf(result)
        /\ ToOf(result) <= Len(L)) => PanicFree(result.ret)
    /\ result.op = "idle" =>
          /\ \A k \in push_reads(ProofListKey(1, Len(L))) \ {ProofListKey(1, Len(L))} :
                readable(store, length, k)
          /\ \A i \in 0..(Len(L) - 1), h \in 1..(height(store, length) - 1) :
                \A k \in set_reads(store, length, Ancestor(h, i)) :
                    readable(store, length, k)

\* get_range_proof(2..3) on a 3-element list: construct_proof has read the
\* left sibling (2, 0) unchecked and unwrapped the leaf at 2.
WitC24 ==
    /\ result.op = "get_range_proof"
    /\ Len(L) = 3
    /\ FromOf(result) = 2
    /\ ToOf(result) = 3
    /\ result.ret[1] = "Right"
    /\ result.ret[2] = store[ProofListKey(2, 0)]
    /\ result.ret[3][1] = "Left"

====
